---- MODULE Spec2Model ----
(***************************************************************************)
(* Profile lifecycle of the intro bot: the interaction handlers of         *)
(* handlers/introInteractions.js (src/unnamed/part_000) and the content    *)
(* generator of utils/aiIntroSummary.js (src/index.js, lines 203-356).     *)
(*                                                                         *)
(* Strings are sequences of tokens (the empty string is << >>), so that    *)
(* concatenation, trimming and the regular-expression replacements are     *)
(* computed.  JavaScript values are records [t |-> type, v |-> payload].   *)
(***************************************************************************)
EXTENDS Integers, Sequences, FiniteSets, TLC

(***************************************************************************)
(* JavaScript values and truthiness.                                       *)
(***************************************************************************)
Undef == [t |-> "undefined", v |-> << >>]

Str(s) == [t |-> "string", v |-> s]

Arr(s) == [t |-> "array", v |-> s]

\* x is truthy in JavaScript: the empty string and undefined are falsy, every
\* array (the empty one too) is truthy.
Truthy(x) ==
  CASE x.t = "string" -> x.v # << >>
    [] x.t = "array" -> TRUE
    [] OTHER -> FALSE

\* a || b
OrElse(a, b) == IF Truthy(a) THEN a ELSE b

(***************************************************************************)
(* Tokens of a generator response.  FENCE stands for three backticks.      *)
(***************************************************************************)
JsonFenceToks == {"FENCEjson", "FENCEJSON"}

FenceTok == "FENCE"

NewlineTok == "\n"

WhitespaceToks == {" ", "\n"}

\* One token per "key": value pair of a JSON object (the separating comma
\* belongs to the token).
SummaryFieldToks == {"summary:x", "summary:", "summary:[]"}

LevelFieldToks == {"experienceLevel:Pro", "experienceLevel:Builder", "experienceLevel:Expert"}

SkillsFieldToks == {"skills:Go", "skills:", "skills:[]"}

FieldToks == SummaryFieldToks \cup LevelFieldToks \cup SkillsFieldToks

FieldKey(tok) ==
  CASE tok \in SummaryFieldToks -> "summary"
    [] tok \in LevelFieldToks -> "experienceLevel"
    [] OTHER -> "skills"

FieldValue(tok) ==
  CASE tok = "summary:x" -> Str(<<"x">>)
    [] tok = "summary:" -> Str(<< >>)
    [] tok = "summary:[]" -> Arr(<< >>)
    [] tok = "experienceLevel:Pro" -> Str(<<"Pro">>)
    [] tok = "experienceLevel:Builder" -> Str(<<"Builder">>)
    [] tok = "experienceLevel:Expert" -> Str(<<"Expert">>)
    [] tok = "skills:Go" -> Str(<<"Go">>)
    [] tok = "skills:" -> Str(<< >>)
    [] OTHER -> Arr(<< >>)

(***************************************************************************)
(* String helpers of the cleaning chain (index.js 275-280).                *)
(***************************************************************************)
RECURSIVE StripJsonFences(_)
\* replace(/FENCEjson\n?/gi, empty): every json fence and one newline after it
StripJsonFences(s) ==
  IF s = << >> THEN << >>
  ELSE IF Head(s) \in JsonFenceToks
       THEN IF Len(s) >= 2 /\ s[2] = NewlineTok
            THEN StripJsonFences(SubSeq(s, 3, Len(s)))
            ELSE StripJsonFences(Tail(s))
       ELSE <<Head(s)>> \o StripJsonFences(Tail(s))

RECURSIVE StripFences(_)
\* replace(/FENCE\n?/g, empty): every bare fence and one newline after it
StripFences(s) ==
  IF s = << >> THEN << >>
  ELSE IF Head(s) = FenceTok
       THEN IF Len(s) >= 2 /\ s[2] = NewlineTok
            THEN StripFences(SubSeq(s, 3, Len(s)))
            ELSE StripFences(Tail(s))
       ELSE <<Head(s)>> \o StripFences(Tail(s))

Positions(s, tok) == {i \in 1..Len(s) : s[i] = tok}

Min(S) == CHOOSE x \in S : \A y \in S : x <= y

Max(S) == CHOOSE x \in S : \A y \in S : x >= y

\* replace(/^[^{]*({)/s, $1): drop what precedes the first opening brace
DropBeforeFirstBrace(s) ==
  IF Positions(s, "{") = {} THEN s
  ELSE SubSeq(s, Min(Positions(s, "{")), Len(s))

\* replace(/(})[^}]*$/s, $1): drop what follows the last closing brace
DropAfterLastBrace(s) ==
  IF Positions(s, "}") = {} THEN s
  ELSE SubSeq(s, 1, Max(Positions(s, "}")))

RECURSIVE TrimLeft(_)
TrimLeft(s) ==
  IF s # << >> /\ Head(s) \in WhitespaceToks THEN TrimLeft(Tail(s)) ELSE s

RECURSIVE TrimRight(_)
TrimRight(s) ==
  IF s # << >> /\ s[Len(s)] \in WhitespaceToks
  THEN TrimRight(SubSeq(s, 1, Len(s) - 1))
  ELSE s

\* String.prototype.trim
Trim(s) == TrimRight(TrimLeft(s))

CleanResponse(responseText) ==
  Trim(DropAfterLastBrace(DropBeforeFirstBrace(StripFences(StripJsonFences(responseText)))))

(***************************************************************************)
(* JSON.parse on the cleaned text (index.js 282-292).  The parsed value is *)
(* [kind, fields]: an object with its three properties (Undef when the     *)
(* key is missing), the literal null, a number, or a syntax error.         *)
(***************************************************************************)
Keys == {"summary", "experienceLevel", "skills"}

RECURSIVE FieldsOf(_)
\* the properties of an object literal; a repeated key keeps its last value
FieldsOf(fs) ==
  IF fs = << >> THEN [k \in Keys |-> Undef]
  ELSE [FieldsOf(SubSeq(fs, 1, Len(fs) - 1)) EXCEPT
          ![FieldKey(fs[Len(fs)])] = FieldValue(fs[Len(fs)])]

NoFields == [k \in Keys |-> Undef]

ParseJSON(cleaned) ==
  IF /\ Len(cleaned) >= 2
     /\ cleaned[1] = "{"
     /\ cleaned[Len(cleaned)] = "}"
     /\ \A i \in 2..(Len(cleaned) - 1) : cleaned[i] \in FieldToks
  THEN [kind |-> "object", fields |-> FieldsOf(SubSeq(cleaned, 2, Len(cleaned) - 1))]
  ELSE IF cleaned = <<"null">> THEN [kind |-> "null", fields |-> NoFields]
  ELSE IF cleaned = <<"7">> THEN [kind |-> "number", fields |-> NoFields]
  ELSE [kind |-> "syntaxError", fields |-> NoFields]

\* characters of a token, for slice
CharLen(tok) ==
  CASE tok \in JsonFenceToks -> 7
    [] tok = FenceTok -> 3
    [] tok \in WhitespaceToks \cup {"{", "}", "7"} -> 1
    [] tok \in FieldToks -> 20
    [] OTHER -> 4

SliceLimit == 400

RECURSIVE Slice(_, _)
\* responseText.slice(0, n): the tokens that fit in the first n characters
Slice(s, n) ==
  IF s = << >> \/ CharLen(Head(s)) > n THEN << >>
  ELSE <<Head(s)>> \o Slice(Tail(s), n - CharLen(Head(s)))

(***************************************************************************)
(* createFallbackSummary (index.js 323-332).                               *)
(***************************************************************************)
createFallbackSummary(introData) ==
  LET name == OrElse(Str(introData.name), Str(<<"This member">>)).v
      interests == OrElse(Str(introData.interests), Str(<<"AI and technology">>)).v
  IN [summary |-> Str(name \o <<" is interested in ">> \o interests
                        \o <<" and wants to learn and grow in the AI community.">>),
      experienceLevel |-> Str(<<"Beginner">>),
      skills |-> Str(<<"Not specified">>)]

NoFallback == [summary |-> Undef, experienceLevel |-> Undef, skills |-> Undef]

(***************************************************************************)
(* generateIntroSummary (index.js 219-321).  ai is whether initializeAI    *)
(* returned a client; gen is what the client did: [kind, text] with kind   *)
(* "throws" (getGenerativeModel, generateContent or text() threw an        *)
(* Error), "textfn" (response.text() returned text), "candidates" (text    *)
(* found under response.candidates) or "noresponse".  Every path returns a *)
(* record; the two shapes of the result are one record type here, with     *)
(* Undef for the properties a shape does not have.                         *)
(***************************************************************************)
validLevels == {Str(<<"Beginner">>), Str(<<"Builder">>), Str(<<"Pro">>)}

FailureResult(introData, error) ==
  [success |-> FALSE, summary |-> Undef, experienceLevel |-> Undef, skills |-> Undef,
   error |-> error, fallback |-> createFallbackSummary(introData)]

\* index.js 282-292: the parsed object, or the text itself as the summary
ParsedOrText(responseText) ==
  LET p == ParseJSON(CleanResponse(responseText))
  IN IF p.kind = "syntaxError"
     THEN [kind |-> "object",
           fields |-> [summary |-> Str(Slice(responseText, SliceLimit)),
                       experienceLevel |-> Str(<<"Beginner">>),
                       skills |-> Str(<<"Not specified">>)]]
     ELSE p

\* SuccessResult with the bug of returning the parsed level unvalidated
SuccessResult_NoLevelCheck(introData, parsed) ==
  LET fallback == createFallbackSummary(introData)
  IN [success |-> TRUE,
      summary |-> OrElse(parsed.fields.summary, fallback.summary),
      experienceLevel |-> parsed.fields.experienceLevel,
      skills |-> OrElse(parsed.fields.skills, fallback.skills),
      error |-> "", fallback |-> NoFallback]

\* index.js 294-310
SuccessResult(introData, parsed) ==
  LET fallback == createFallbackSummary(introData)
  IN [success |-> TRUE,
      summary |-> OrElse(parsed.fields.summary, fallback.summary),
      experienceLevel |-> IF parsed.fields.experienceLevel \in validLevels
                          THEN parsed.fields.experienceLevel
                          ELSE Str(<<"Beginner">>),
      skills |-> OrElse(parsed.fields.skills, fallback.skills),
      error |-> "", fallback |-> NoFallback]

generateIntroSummary(introData, ai, gen) ==
  IF ~ai THEN FailureResult(introData, "AI service not available")
  ELSE IF gen.kind = "throws" THEN FailureResult(introData, "generator error")
  ELSE IF gen.kind = "noresponse" \/ (gen.kind = "candidates" /\ gen.text = << >>)
       THEN FailureResult(introData, "Unable to extract response from Gemini")
  ELSE IF gen.text = << >> \/ Trim(gen.text) = << >>
       THEN FailureResult(introData, "Empty response from Gemini")
  ELSE LET parsed == ParsedOrText(gen.text)
       IN IF parsed.kind = "null"
          THEN FailureResult(introData, "TypeError: cannot read properties of null")
          ELSE SuccessResult(introData, parsed)

(***************************************************************************)
(* The handler's use of the generator (part_000 27-33 and 62-75).          *)
(***************************************************************************)
\* getTextInputValue(id) || default
IntroDataOf(form) ==
  [name |-> OrElse(Str(form.name), Str(<<"Not provided">>)).v,
   role |-> OrElse(Str(form.role), Str(<<"Not provided">>)).v,
   institution |-> OrElse(Str(form.institution), Str(<<"Not specified">>)).v,
   interests |-> OrElse(Str(form.interests), Str(<<"Not provided">>)).v,
   details |-> OrElse(Str(form.details), Str(<<"Not provided">>)).v]

\* the summary / experienceLevel / skills the handler goes on with
TripleOf(aiResult) ==
  IF aiResult.success
  THEN [summary |-> aiResult.summary, experienceLevel |-> aiResult.experienceLevel,
        skills |-> aiResult.skills]
  ELSE [summary |-> aiResult.fallback.summary,
        experienceLevel |-> aiResult.fallback.experienceLevel,
        skills |-> aiResult.fallback.skills]

(***************************************************************************)
(* The lifecycle state machine (part_000).                                 *)
(*                                                                         *)
(* store      the profile store: user -> record, for the users that have   *)
(*            one (utils/updateProfile: getUserProfile, saveUserProfile,   *)
(*            deleteUserProfile)                                           *)
(* messages   the live messages of the profile channel: id -> the user     *)
(*            the embed mentions and the buttons are tagged with           *)
(* nextId     the id the channel gives to the next message sent            *)
(* config     whether loadConfig().profileChannelId is set                 *)
(* env        whether process.env.PROFILE_CHANNEL_ID is set                *)
(* h          the handler invocations in progress, one per slot: the       *)
(*            acting user, the position, the locals and, for the           *)
(*            properties, the calls made, the store and channel the        *)
(*            invocation started from and the message id its save wrote    *)
(*            over (0 for none)                                            *)
(* lastDone   the handler that returned last, when it was a delete         *)
(*            request that showed the prompt or a confirm that reported    *)
(*            the deletion, with the store and channel it started from     *)
(*            and returned with                                            *)
(* The interaction replies (reply, editReply, update, showModal) and the   *)
(* safeReply helpers are taken to succeed, safeDefer apart.                *)
(***************************************************************************)
VARIABLES store, messages, nextId, config, env, h, lastDone,
          genForm, genAi, genOutcome, genResult, genTriple, genPc

lifecycleVars == <<store, messages, nextId, config, env, h, lastDone>>

genVars == <<genForm, genAi, genOutcome, genResult, genTriple, genPc>>

vars == <<store, messages, nextId, config, env, h, lastDone,
          genForm, genAi, genOutcome, genResult, genTriple, genPc>>

Users == {"u1", "u2"}

\* handler invocations that can be in progress
Slots == {"h1", "h2"}

FirstSlot == "h1"

\* message ids the channel can hand out
MaxMsgs == 2

EmptyForm == [name |-> << >>, role |-> << >>, institution |-> << >>,
              interests |-> << >>, details |-> << >>]

RaviForm == [name |-> <<"Ravi">>, role |-> <<"Student">>, institution |-> <<"IIT">>,
             interests |-> <<"NLP">>, details |-> <<"I build bots">>]

GoodText == <<"{", "summary:x", "experienceLevel:Pro", "skills:Go", "}">>

ArrayText == <<"{", "summary:x", "experienceLevel:Pro", "skills:[]", "}">>

\* the forms and generator behaviours the lifecycle is explored with
LifecycleForms == {RaviForm}

LifecycleOutcomes ==
  {[ai |-> FALSE, gen |-> [kind |-> "throws", text |-> << >>]],
   [ai |-> TRUE, gen |-> [kind |-> "textfn", text |-> GoodText]],
   [ai |-> TRUE, gen |-> [kind |-> "textfn", text |-> ArrayText]]}

\* user-visible responses
RespNone == "no response"

RespProcessing == "Processing your introduction with AI"

RespNotConfigured == "Profile channel is not configured"

RespChannelNotFound == "Could not find the profile channel"

RespPostFailed == "Failed to post your profile"

RespPosted == "Your introduction has been posted"

RespWentWrong == "Something went wrong while processing your introduction"

RespOwnUpdate == "You can only update your own introduction"

RespOwnDelete == "You can only delete your own introduction"

RespModalShown == "modal shown"

RespShowFailed == "Failed to show update form"

RespConfirmPrompt == "Are you sure you want to delete your introduction"

RespNotFound == "Could not find your introduction"

RespDeleted == "Your introduction has been deleted"

RespDeleteFailed == "Failed to delete your introduction"

RespCancelled == "Deletion cancelled"

NoSnapshot == [store |-> << >>, messages |-> << >>]

NoneDone ==
  [actor |-> "u1", kind |-> "none", response |-> RespNone,
   pre |-> NoSnapshot, post |-> NoSnapshot]

Idle ==
  [kind |-> "idle", pc |-> "idle", actor |-> "u1", target |-> "u1", form |-> EmptyForm,
   channelId |-> FALSE, triple |-> NoFallback, existing |-> 0, newId |-> 0,
   overwrote |-> 0, response |-> RespNone, calls |-> << >>, pre |-> NoSnapshot]

Snapshot == [store |-> store, messages |-> messages]

\* the live messages of user u in a channel state m
LiveOf(m, u) == {i \in DOMAIN m : m[i] = u}

Call(name, ok) == [call |-> name, ok |-> ok]

Begin(kind, pc, actor, target, form) ==
  [Idle EXCEPT !.kind = kind, !.pc = pc, !.actor = actor, !.target = target,
               !.form = form, !.pre = Snapshot]

\* config.profileChannelId || process.env.PROFILE_CHANNEL_ID  (part_000 38, 243)
profileChannelId == config \/ env

Init ==
  /\ store = << >>
  /\ messages = << >>
  /\ nextId = 1
  /\ config \in BOOLEAN
  /\ env \in BOOLEAN
  /\ h = [s \in Slots |-> Idle]
  /\ lastDone = NoneDone
  /\ genForm = EmptyForm
  /\ genAi = FALSE
  /\ genOutcome = [kind |-> "throws", text |-> << >>]
  /\ genResult = FailureResult(IntroDataOf(EmptyForm), "")
  /\ genTriple = NoFallback
  /\ genPc = "off"

\* an admin's setup command sets the configured channel id, or clears it;
\* it is one more handler of the listener and runs between the others
Reconfigure ==
  /\ \A x \in Slots : h[x].kind = "idle"
  /\ config' = ~config
  /\ UNCHANGED <<store, messages, nextId, env, h, lastDone, genVars>>

(***************************************************************************)
(* The interactionCreate listener (index.js 124-165): an event of user a   *)
(* is routed to its handler, which runs in slot s.  Handlers run one at a  *)
(* time: an event is taken when no invocation is in progress.              *)
(***************************************************************************)
Dispatch(s, hs) ==
  /\ s = FirstSlot
  /\ \A x \in Slots : h[x].kind = "idle"
  /\ h' = [h EXCEPT ![s] = hs]
  /\ UNCHANGED <<store, messages, nextId, config, env, lastDone, genVars>>

\* intro_modal / edit_profile_modal submitted by a
StartSubmit(s, a) ==
  /\ nextId <= MaxMsgs
  /\ \E form \in LifecycleForms : Dispatch(s, Begin("submit", "defer", a, a, form))

\* update_intro_<t> pressed by a, on a live message of t
StartUpdateButton(s, a) ==
  \E t \in Users :
    /\ LiveOf(messages, t) # {}
    /\ Dispatch(s, Begin("updateBtn", "check", a, t, EmptyForm))

\* delete_intro_<t> pressed by a, on a live message of t
StartDeleteButton(s, a) ==
  \E t \in Users :
    /\ LiveOf(messages, t) # {}
    /\ Dispatch(s, Begin("deleteBtn", "check", a, t, EmptyForm))

\* confirm_delete_intro_<t> pressed by a
StartConfirm(s, a) ==
  \E t \in Users : Dispatch(s, Begin("confirm", "check", a, t, EmptyForm))

\* cancel_delete_intro_<t> pressed by a
StartCancel(s, a) ==
  \E t \in Users : Dispatch(s, Begin("cancel", "check", a, t, EmptyForm))

\* one step of the handler in slot s: its record becomes hs
Step(s, hs) == h' = [h EXCEPT ![s] = hs]

\* the handler ends with a final response
Finish(s, hs, response) == Step(s, [hs EXCEPT !.pc = "done", !.response = response])

Called(hs, name, ok) == [hs EXCEPT !.calls = Append(@, Call(name, ok))]

\* what lastDone keeps of a handler that returns
DoneOf(hs) ==
  IF hs.response \in {RespConfirmPrompt, RespDeleted}
  THEN [actor |-> hs.actor, kind |-> hs.kind, response |-> hs.response,
        pre |-> hs.pre, post |-> Snapshot]
  ELSE NoneDone

\* the handler returns to the listener
Return(s) ==
  /\ h[s].pc = "done"
  /\ h' = [h EXCEPT ![s] = Idle]
  /\ lastDone' = DoneOf(h[s])
  /\ UNCHANGED <<store, messages, nextId, config, env, genVars>>

Put(m, k, v) == [i \in DOMAIN m \cup {k} |-> IF i = k THEN v ELSE m[i]]

Del(m, k) == [i \in DOMAIN m \ {k} |-> m[i]]

\* what saveUserProfile(userId, messageId, {introData, summary, ...}) stores
ProfileRecord(messageId, introData, triple) ==
  [messageId |-> messageId, introData |-> introData, summary |-> triple.summary,
   experienceLevel |-> triple.experienceLevel, skills |-> triple.skills]

\* the embed builders and the channel accept only non-empty strings as field
\* values (part_000 91-109); the description and the Experience value are
\* template strings around the summary and the level, the Skills value is
\* the skills as returned
EmbedValid(triple) ==
  /\ triple.experienceLevel.t = "string" /\ triple.experienceLevel.v # << >>
  /\ triple.skills.t = "string" /\ triple.skills.v # << >>

(***************************************************************************)
(* handleIntroModal (part_000 19-165), one action per await.               *)
(***************************************************************************)
\* 20-45: safeDefer, the form fields, loadConfig
SubmitDefer(s) ==
  /\ h[s].kind = "submit" /\ h[s].pc = "defer"
  /\ \E ok \in BOOLEAN :
       IF ~ok THEN Finish(s, Called(h[s], "defer", FALSE), RespNone)
       ELSE IF ~profileChannelId
            THEN Finish(s, Called(h[s], "defer", TRUE), RespNotConfigured)
            ELSE Step(s, [Called(h[s], "defer", TRUE) EXCEPT
                            !.pc = "resolve", !.channelId = TRUE])
  /\ UNCHANGED <<store, messages, nextId, config, env, lastDone, genVars>>

\* 47-60: channels.fetch(profileChannelId)
SubmitResolve(s) ==
  /\ h[s].kind = "submit" /\ h[s].pc = "resolve"
  /\ \E ok \in BOOLEAN :
       IF ok
       THEN Step(s, [Called(h[s], "resolve", TRUE) EXCEPT
                       !.pc = "generate", !.response = RespProcessing])
       ELSE Finish(s, Called(h[s], "resolve", FALSE), RespChannelNotFound)
  /\ UNCHANGED <<store, messages, nextId, config, env, lastDone, genVars>>

\* 62-75: generateIntroSummary(introData) and the choice of the triple
SubmitGenerate(s) ==
  /\ h[s].kind = "submit" /\ h[s].pc = "generate"
  /\ \E o \in LifecycleOutcomes :
       LET aiResult == generateIntroSummary(IntroDataOf(h[s].form), o.ai, o.gen)
       IN Step(s, [Called(h[s], "generator", aiResult.success) EXCEPT
                     !.pc = "getProfile", !.triple = TripleOf(aiResult)])
  /\ UNCHANGED <<store, messages, nextId, config, env, lastDone, genVars>>

\* SubmitGetProfile with the bug of never retracting the old message
SubmitGetProfile_SkipRetract(s) ==
  /\ h[s].kind = "submit" /\ h[s].pc = "getProfile"
  /\ \E ok \in BOOLEAN :
       IF ok
       THEN LET existing == IF h[s].actor \in DOMAIN store
                            THEN store[h[s].actor].messageId ELSE 0
            IN Step(s, [Called(h[s], "storeGet", TRUE) EXCEPT
                          !.existing = existing, !.pc = "build"])
       ELSE Finish(s, Called(h[s], "storeGet", FALSE), RespWentWrong)
  /\ UNCHANGED <<store, messages, nextId, config, env, lastDone, genVars>>

\* SubmitGetProfile with the bug of a store failure ending the handler unanswered
SubmitGetProfile_NoCatch(s) ==
  /\ h[s].kind = "submit" /\ h[s].pc = "getProfile"
  /\ \E ok \in BOOLEAN :
       IF ok
       THEN LET existing == IF h[s].actor \in DOMAIN store
                            THEN store[h[s].actor].messageId ELSE 0
            IN Step(s, [Called(h[s], "storeGet", TRUE) EXCEPT
                          !.existing = existing,
                          !.pc = IF existing # 0 THEN "fetchOld" ELSE "build"])
       ELSE Finish(s, Called(h[s], "storeGet", FALSE), RespNone)
  /\ UNCHANGED <<store, messages, nextId, config, env, lastDone, genVars>>

\* 77-78: getUserProfile(interaction.user.id)
SubmitGetProfile(s) ==
  /\ h[s].kind = "submit" /\ h[s].pc = "getProfile"
  /\ \E ok \in BOOLEAN :
       IF ok
       THEN LET existing == IF h[s].actor \in DOMAIN store THEN store[h[s].actor].messageId ELSE 0
            IN Step(s, [Called(h[s], "storeGet", TRUE) EXCEPT
                          !.existing = existing,
                          !.pc = IF existing # 0 THEN "fetchOld" ELSE "build"])
       ELSE Finish(s, Called(h[s], "storeGet", FALSE), RespWentWrong)
  /\ UNCHANGED <<store, messages, nextId, config, env, lastDone, genVars>>

\* 80: profileChannel.messages.fetch(existingProfile.messageId)
SubmitFetchOld(s) ==
  /\ h[s].kind = "submit" /\ h[s].pc = "fetchOld"
  /\ \E ok \in BOOLEAN :
       /\ ok => h[s].existing \in DOMAIN messages
       /\ Step(s, [Called(h[s], "fetchOld", ok) EXCEPT
                     !.pc = IF ok THEN "deleteOld" ELSE "build"])
  /\ UNCHANGED <<store, messages, nextId, config, env, lastDone, genVars>>

\* SubmitDeleteOld with the bug of never deleting the old message
SubmitDeleteOld_KeepsMessage(s) ==
  /\ h[s].kind = "submit" /\ h[s].pc = "deleteOld"
  /\ \E ok \in BOOLEAN :
       /\ ok => h[s].existing \in DOMAIN messages
       /\ Step(s, [Called(h[s], "deleteOld", ok) EXCEPT !.pc = "build"])
  /\ UNCHANGED <<store, messages, nextId, config, env, lastDone, genVars>>

\* SubmitDeleteOld with the bug of deleting the channel's newest message
SubmitDeleteOld_DeletesNewest(s) ==
  /\ h[s].kind = "submit" /\ h[s].pc = "deleteOld"
  /\ \E ok \in BOOLEAN :
       /\ ok => h[s].existing \in DOMAIN messages
       /\ messages' = IF ok THEN Del(messages, Max(DOMAIN messages)) ELSE messages
       /\ Step(s, [Called(h[s], "deleteOld", ok) EXCEPT !.pc = "build"])
  /\ UNCHANGED <<store, nextId, config, env, lastDone, genVars>>

\* 81-85: oldMessage.delete(), its failure logged and dropped
SubmitDeleteOld(s) ==
  /\ h[s].kind = "submit" /\ h[s].pc = "deleteOld"
  /\ \E ok \in BOOLEAN :
       /\ ok => h[s].existing \in DOMAIN messages
       /\ messages' = IF ok THEN Del(messages, h[s].existing) ELSE messages
       /\ Step(s, [Called(h[s], "deleteOld", ok) EXCEPT !.pc = "build"])
  /\ UNCHANGED <<store, nextId, config, env, lastDone, genVars>>

\* 88-129: the embed and the buttons; a value the builders reject throws to
\* the catch of 161-164, or goes on to a send the channel rejects
SubmitBuild(s) ==
  /\ h[s].kind = "submit" /\ h[s].pc = "build"
  /\ IF EmbedValid(h[s].triple)
     THEN Step(s, [h[s] EXCEPT !.pc = "send"])
     ELSE \/ Finish(s, Called(h[s], "build", FALSE), RespWentWrong)
          \/ Step(s, [h[s] EXCEPT !.pc = "send"])
  /\ UNCHANGED <<store, messages, nextId, config, env, lastDone, genVars>>

\* SubmitSend with the bug of going on to the save after a failed send
SubmitSend_NoReturn(s) ==
  /\ h[s].kind = "submit" /\ h[s].pc = "send"
  /\ \E ok \in BOOLEAN :
       /\ ok => EmbedValid(h[s].triple)
       /\ IF ok
          THEN /\ messages' = Put(messages, nextId, h[s].actor)
               /\ nextId' = nextId + 1
               /\ Step(s, [Called(h[s], "send", TRUE) EXCEPT
                             !.pc = "save", !.newId = nextId])
          ELSE /\ UNCHANGED <<messages, nextId>>
               /\ Step(s, [Called(h[s], "send", FALSE) EXCEPT !.pc = "save"])
  /\ UNCHANGED <<store, config, env, lastDone, genVars>>

\* 131-143: profileChannel.send
SubmitSend(s) ==
  /\ h[s].kind = "submit" /\ h[s].pc = "send"
  /\ \E ok \in BOOLEAN :
       /\ ok => EmbedValid(h[s].triple)
       /\ IF ok
          THEN /\ messages' = Put(messages, nextId, h[s].actor)
               /\ nextId' = nextId + 1
               /\ Step(s, [Called(h[s], "send", TRUE) EXCEPT
                             !.pc = "save", !.newId = nextId])
          ELSE /\ UNCHANGED <<messages, nextId>>
               /\ Finish(s, Called(h[s], "send", FALSE), RespPostFailed)
  /\ UNCHANGED <<store, config, env, lastDone, genVars>>

\* the handler after a save that succeeded, with the id it wrote over
Saved(hs) ==
  [Called(hs, "storeSave", TRUE) EXCEPT
     !.overwrote = IF hs.actor \in DOMAIN store THEN store[hs.actor].messageId ELSE 0]

\* SubmitSave with the bug of keeping a record written since the handler's read
SubmitSave_KeepsFirst(s) ==
  /\ h[s].kind = "submit" /\ h[s].pc = "save"
  /\ \E ok \in BOOLEAN :
       IF ok
       THEN /\ store' = IF Saved(h[s]).overwrote = h[s].existing
                        THEN Put(store, h[s].actor,
                                 ProfileRecord(h[s].newId, IntroDataOf(h[s].form),
                                               h[s].triple))
                        ELSE store
            /\ Finish(s, Saved(h[s]), RespPosted)
       ELSE /\ UNCHANGED store
            /\ Finish(s, Called(h[s], "storeSave", FALSE), RespWentWrong)
  /\ UNCHANGED <<messages, nextId, config, env, lastDone, genVars>>

\* SubmitSave with the bug of taking back the message when the save fails
SubmitSave_RollsBack(s) ==
  /\ h[s].kind = "submit" /\ h[s].pc = "save"
  /\ \E ok \in BOOLEAN :
       IF ok
       THEN /\ store' = Put(store, h[s].actor,
                            ProfileRecord(h[s].newId, IntroDataOf(h[s].form),
                                          h[s].triple))
            /\ UNCHANGED messages
            /\ Finish(s, Saved(h[s]), RespPosted)
       ELSE /\ UNCHANGED store
            /\ messages' = Del(messages, h[s].newId)
            /\ Finish(s, Called(h[s], "storeSave", FALSE), RespWentWrong)
  /\ UNCHANGED <<nextId, config, env, lastDone, genVars>>

\* SubmitSave with the bug of saving the id of the existing profile
SubmitSave_OldId(s) ==
  /\ h[s].kind = "submit" /\ h[s].pc = "save"
  /\ \E ok \in BOOLEAN :
       IF ok
       THEN /\ store' = Put(store, h[s].actor,
                            ProfileRecord(h[s].existing, IntroDataOf(h[s].form),
                                          h[s].triple))
            /\ Finish(s, Saved(h[s]), RespPosted)
       ELSE /\ UNCHANGED store
            /\ Finish(s, Called(h[s], "storeSave", FALSE), RespWentWrong)
  /\ UNCHANGED <<messages, nextId, config, env, lastDone, genVars>>

\* 145-164: saveUserProfile, then the final reply
SubmitSave(s) ==
  /\ h[s].kind = "submit" /\ h[s].pc = "save"
  /\ \E ok \in BOOLEAN :
       IF ok
       THEN /\ store' = Put(store, h[s].actor, ProfileRecord(h[s].newId, IntroDataOf(h[s].form),
                                                    h[s].triple))
            /\ Finish(s, Saved(h[s]), RespPosted)
       ELSE /\ UNCHANGED store
            /\ Finish(s, Called(h[s], "storeSave", FALSE), RespWentWrong)
  /\ UNCHANGED <<messages, nextId, config, env, lastDone, genVars>>

(***************************************************************************)
(* handleUpdateIntroButton (part_000 167-188).                             *)
(***************************************************************************)
\* 168-176: the ownership check
UpdateButtonCheck(s) ==
  /\ h[s].kind = "updateBtn" /\ h[s].pc = "check"
  /\ IF h[s].actor # h[s].target
     THEN Finish(s, h[s], RespOwnUpdate)
     ELSE Step(s, [h[s] EXCEPT !.pc = "getProfile"])
  /\ UNCHANGED <<store, messages, nextId, config, env, lastDone, genVars>>

\* 178-187: getUserProfile, then the modal
UpdateButtonGetProfile(s) ==
  /\ h[s].kind = "updateBtn" /\ h[s].pc = "getProfile"
  /\ \E ok \in BOOLEAN :
       IF ok
       THEN Finish(s, [Called(h[s], "storeGet", TRUE) EXCEPT
                         !.existing = IF h[s].target \in DOMAIN store
                                      THEN store[h[s].target].messageId ELSE 0],
                   RespModalShown)
       ELSE Finish(s, Called(h[s], "storeGet", FALSE), RespShowFailed)
  /\ UNCHANGED <<store, messages, nextId, config, env, lastDone, genVars>>

(***************************************************************************)
(* handleDeleteIntroButton (part_000 190-218).                             *)
(***************************************************************************)
DeleteButtonCheck(s) ==
  /\ h[s].kind = "deleteBtn" /\ h[s].pc = "check"
  /\ IF h[s].actor # h[s].target
     THEN Finish(s, h[s], RespOwnDelete)
     ELSE Finish(s, h[s], RespConfirmPrompt)
  /\ UNCHANGED <<store, messages, nextId, config, env, lastDone, genVars>>

(***************************************************************************)
(* handleConfirmDeleteIntro (part_000 220-268).                            *)
(***************************************************************************)
\* ConfirmCheck with the bug of not comparing the presser with the owner
ConfirmCheck_NoOwnership(s) ==
  /\ h[s].kind = "confirm" /\ h[s].pc = "check"
  /\ Step(s, [h[s] EXCEPT !.pc = "getProfile"])
  /\ UNCHANGED <<store, messages, nextId, config, env, lastDone, genVars>>

\* 221-229: the ownership check
ConfirmCheck(s) ==
  /\ h[s].kind = "confirm" /\ h[s].pc = "check"
  /\ IF h[s].actor # h[s].target
     THEN Finish(s, h[s], RespOwnDelete)
     ELSE Step(s, [h[s] EXCEPT !.pc = "getProfile"])
  /\ UNCHANGED <<store, messages, nextId, config, env, lastDone, genVars>>

\* ConfirmGetProfile with the bug of going on without a record
ConfirmGetProfile_NoNotFound(s) ==
  /\ h[s].kind = "confirm" /\ h[s].pc = "getProfile"
  /\ \E ok \in BOOLEAN :
       IF ~ok THEN Finish(s, Called(h[s], "storeGet", FALSE), RespDeleteFailed)
       ELSE Step(s, [Called(h[s], "storeGet", TRUE) EXCEPT
                       !.existing = IF h[s].target \in DOMAIN store
                                    THEN store[h[s].target].messageId ELSE 0,
                       !.channelId = profileChannelId,
                       !.pc = "resolve"])
  /\ UNCHANGED <<store, messages, nextId, config, env, lastDone, genVars>>

\* 232-243: getUserProfile, the not-found reply, loadConfig
ConfirmGetProfile(s) ==
  /\ h[s].kind = "confirm" /\ h[s].pc = "getProfile"
  /\ \E ok \in BOOLEAN :
       IF ~ok THEN Finish(s, Called(h[s], "storeGet", FALSE), RespDeleteFailed)
       ELSE IF h[s].target \notin DOMAIN store
            THEN Finish(s, Called(h[s], "storeGet", TRUE), RespNotFound)
            ELSE Step(s, [Called(h[s], "storeGet", TRUE) EXCEPT
                            !.existing = store[h[s].target].messageId,
                            !.channelId = profileChannelId,
                            !.pc = "resolve"])
  /\ UNCHANGED <<store, messages, nextId, config, env, lastDone, genVars>>

\* 246: channels.fetch(profileChannelId); an unset id resolves to no channel
ConfirmResolve(s) ==
  /\ h[s].kind = "confirm" /\ h[s].pc = "resolve"
  /\ \E ok \in BOOLEAN :
       /\ ok => h[s].channelId
       /\ Step(s, [Called(h[s], "resolve", ok) EXCEPT
                     !.pc = IF ok THEN "fetch" ELSE "deleteRecord"])
  /\ UNCHANGED <<store, messages, nextId, config, env, lastDone, genVars>>

\* 247: profileChannel.messages.fetch(userProfile.messageId)
ConfirmFetch(s) ==
  /\ h[s].kind = "confirm" /\ h[s].pc = "fetch"
  /\ \E ok \in BOOLEAN :
       /\ ok => h[s].existing \in DOMAIN messages
       /\ Step(s, [Called(h[s], "fetchOld", ok) EXCEPT
                     !.pc = IF ok THEN "deleteMessage" ELSE "deleteRecord"])
  /\ UNCHANGED <<store, messages, nextId, config, env, lastDone, genVars>>

\* 248-252: message.delete(), its failure logged and dropped
ConfirmDeleteMessage(s) ==
  /\ h[s].kind = "confirm" /\ h[s].pc = "deleteMessage"
  /\ \E ok \in BOOLEAN :
       /\ ok => h[s].existing \in DOMAIN messages
       /\ messages' = IF ok THEN Del(messages, h[s].existing) ELSE messages
       /\ Step(s, [Called(h[s], "deleteOld", ok) EXCEPT !.pc = "deleteRecord"])
  /\ UNCHANGED <<store, nextId, config, env, lastDone, genVars>>

\* ConfirmDeleteRecord with the bug of reporting a deletion it did not make
ConfirmDeleteRecord_KeepsRecord(s) ==
  /\ h[s].kind = "confirm" /\ h[s].pc = "deleteRecord"
  /\ \E ok \in BOOLEAN :
       IF ok
       THEN Finish(s, Called(h[s], "storeDelete", TRUE), RespDeleted)
       ELSE Finish(s, Called(h[s], "storeDelete", FALSE), RespDeleteFailed)
  /\ UNCHANGED <<store, messages, nextId, config, env, lastDone, genVars>>

\* ConfirmDeleteRecord with the bug of deleting only a record that still names
\* the message the handler read
ConfirmDeleteRecord_IfUnchanged(s) ==
  /\ h[s].kind = "confirm" /\ h[s].pc = "deleteRecord"
  /\ \E ok \in BOOLEAN :
       IF ok
       THEN /\ store' = IF /\ h[s].target \in DOMAIN store
                           /\ store[h[s].target].messageId = h[s].existing
                        THEN Del(store, h[s].target)
                        ELSE store
            /\ Finish(s, Called(h[s], "storeDelete", TRUE), RespDeleted)
       ELSE /\ UNCHANGED store
            /\ Finish(s, Called(h[s], "storeDelete", FALSE), RespDeleteFailed)
  /\ UNCHANGED <<messages, nextId, config, env, lastDone, genVars>>

\* 254-267: deleteUserProfile, then the final reply
ConfirmDeleteRecord(s) ==
  /\ h[s].kind = "confirm" /\ h[s].pc = "deleteRecord"
  /\ \E ok \in BOOLEAN :
       IF ok
       THEN /\ store' = Del(store, h[s].target)
            /\ Finish(s, Called(h[s], "storeDelete", TRUE), RespDeleted)
       ELSE /\ UNCHANGED store
            /\ Finish(s, Called(h[s], "storeDelete", FALSE), RespDeleteFailed)
  /\ UNCHANGED <<messages, nextId, config, env, lastDone, genVars>>

(***************************************************************************)
(* handleCancelDeleteIntro (part_000 270-275).                             *)
(***************************************************************************)
\* CancelReply with the bug of deleting the record as the confirm does
CancelReply_Deletes(s) ==
  /\ h[s].kind = "cancel" /\ h[s].pc = "check"
  /\ store' = Del(store, h[s].target)
  /\ Finish(s, h[s], RespCancelled)
  /\ UNCHANGED <<messages, nextId, config, env, lastDone, genVars>>

CancelReply(s) ==
  /\ h[s].kind = "cancel" /\ h[s].pc = "check"
  /\ Finish(s, h[s], RespCancelled)
  /\ UNCHANGED <<store, messages, nextId, config, env, lastDone, genVars>>

\* a step of handleIntroModal running in slot s
SubmitStep(s) ==
  \/ SubmitDefer(s)
  \/ SubmitResolve(s)
  \/ SubmitGenerate(s)
  \/ SubmitGetProfile(s)
  \/ SubmitFetchOld(s)
  \/ SubmitDeleteOld(s)
  \/ SubmitBuild(s)
  \/ SubmitSend(s)
  \/ SubmitSave(s)

\* a step of the handler running in slot s
HandlerStep(s) ==
  \/ SubmitStep(s)
  \/ UpdateButtonCheck(s)
  \/ UpdateButtonGetProfile(s)
  \/ DeleteButtonCheck(s)
  \/ ConfirmCheck(s)
  \/ ConfirmGetProfile(s)
  \/ ConfirmResolve(s)
  \/ ConfirmFetch(s)
  \/ ConfirmDeleteMessage(s)
  \/ ConfirmDeleteRecord(s)
  \/ CancelReply(s)

Next ==
  \/ Reconfigure
  \/ \E s \in Slots :
       \/ \E a \in Users : StartSubmit(s, a)
       \/ \E a \in Users : StartUpdateButton(s, a)
       \/ \E a \in Users : StartDeleteButton(s, a)
       \/ \E a \in Users : StartConfirm(s, a)
       \/ \E a \in Users : StartCancel(s, a)
       \/ HandlerStep(s)
       \/ Return(s)

Spec == Init /\ [][Next]_vars

(***************************************************************************)
(* The handlers under fairness.  The channel id comes from the config      *)
(* alone (set or unset at start) and the setup command is not run.  Every  *)
(* awaited call of a running handler returns or throws, so the handler     *)
(* goes on; nothing obliges a user to send another event.                  *)
(***************************************************************************)
FairInit == Init /\ ~env

FairNext ==
  \E s \in Slots :
    \/ \E a \in Users : StartSubmit(s, a)
    \/ \E a \in Users : StartUpdateButton(s, a)
    \/ \E a \in Users : StartDeleteButton(s, a)
    \/ \E a \in Users : StartConfirm(s, a)
    \/ \E a \in Users : StartCancel(s, a)
    \/ HandlerStep(s)
    \/ Return(s)

SpecFair == FairInit /\ [][FairNext]_vars /\ \A s \in Slots : WF_vars(HandlerStep(s))

(***************************************************************************)
(* Submissions that overlap.  The listener does not wait for a handler     *)
(* before it takes the next event, so a second submission can start while  *)
(* one is suspended at an await; the two then interleave at their awaits.  *)
(* Each slot runs one submission.  It starts from a state the sequential   *)
(* behaviours reach: u1 has a published profile.                           *)
(***************************************************************************)
PublishedRecord ==
  ProfileRecord(1, IntroDataOf(RaviForm),
                TripleOf(generateIntroSummary(IntroDataOf(RaviForm), TRUE,
                                              [kind |-> "textfn", text |-> GoodText])))

RaceInit ==
  /\ store = Put(<< >>, "u1", PublishedRecord)
  /\ messages = Put(<< >>, 1, "u1")
  /\ nextId = 2
  /\ config = TRUE
  /\ env = TRUE
  /\ h = [s \in Slots |-> Idle]
  /\ lastDone = NoneDone
  /\ genForm = EmptyForm
  /\ genAi = FALSE
  /\ genOutcome = [kind |-> "throws", text |-> << >>]
  /\ genResult = FailureResult(IntroDataOf(EmptyForm), "")
  /\ genTriple = NoFallback
  /\ genPc = "off"

\* intro_modal / edit_profile_modal submitted by a, other handlers running or not
RaceStartSubmit(s, a) ==
  /\ h[s].kind = "idle"
  /\ \E form \in LifecycleForms :
       h' = [h EXCEPT ![s] = Begin("submit", "defer", a, a, form)]
  /\ UNCHANGED <<store, messages, nextId, config, env, lastDone, genVars>>

RaceNext ==
  \E s \in Slots :
    \/ \E a \in Users : RaceStartSubmit(s, a)
    \/ SubmitStep(s)

SpecRace == RaceInit /\ [][RaceNext]_vars

(***************************************************************************)
(* Handlers of every kind that overlap: two events, of one user or of two, *)
(* each handled in its own slot, interleaved at their awaits.  It starts   *)
(* from a state the sequential behaviours reach: both users have a         *)
(* published profile (and, for the confirm and cancel controls, have asked *)
(* to delete it).                                                          *)
(***************************************************************************)
BothPublished ==
  Put(Put(<< >>, "u1", PublishedRecord), "u2", [PublishedRecord EXCEPT !.messageId = 2])

ConcInit ==
  /\ store = BothPublished
  /\ messages = Put(Put(<< >>, 1, "u1"), 2, "u2")
  /\ nextId = 3
  /\ config = TRUE
  /\ env = TRUE
  /\ h = [s \in Slots |-> Idle]
  /\ lastDone = NoneDone
  /\ genForm = EmptyForm
  /\ genAi = FALSE
  /\ genOutcome = [kind |-> "throws", text |-> << >>]
  /\ genResult = FailureResult(IntroDataOf(EmptyForm), "")
  /\ genTriple = NoFallback
  /\ genPc = "off"

\* an event of user a is routed to its handler in the free slot s, other
\* handlers running or not
ConcDispatch(s, hs) ==
  /\ h[s].kind = "idle"
  /\ h' = [h EXCEPT ![s] = hs]
  /\ UNCHANGED <<store, messages, nextId, config, env, lastDone, genVars>>

ConcStartSubmit(s, a) ==
  \E form \in LifecycleForms : ConcDispatch(s, Begin("submit", "defer", a, a, form))

ConcStartUpdateButton(s, a) ==
  \E t \in Users :
    /\ LiveOf(messages, t) # {}
    /\ ConcDispatch(s, Begin("updateBtn", "check", a, t, EmptyForm))

ConcStartDeleteButton(s, a) ==
  \E t \in Users :
    /\ LiveOf(messages, t) # {}
    /\ ConcDispatch(s, Begin("deleteBtn", "check", a, t, EmptyForm))

ConcStartConfirm(s, a) ==
  \E t \in Users : ConcDispatch(s, Begin("confirm", "check", a, t, EmptyForm))

ConcStartCancel(s, a) ==
  \E t \in Users : ConcDispatch(s, Begin("cancel", "check", a, t, EmptyForm))

ConcNext ==
  \E s \in Slots :
    \/ \E a \in Users : ConcStartSubmit(s, a)
    \/ \E a \in Users : ConcStartUpdateButton(s, a)
    \/ \E a \in Users : ConcStartDeleteButton(s, a)
    \/ \E a \in Users : ConcStartConfirm(s, a)
    \/ \E a \in Users : ConcStartCancel(s, a)
    \/ HandlerStep(s)

SpecConc == ConcInit /\ [][ConcNext]_vars

(***************************************************************************)
(* The generator on its own: the handler's call of generateIntroSummary    *)
(* for every form and every behaviour of the client drawn below.           *)
(***************************************************************************)
GenForms ==
  {[name |-> n, role |-> r, institution |-> r, interests |-> i, details |-> r] :
     n \in {<< >>, <<"Ravi">>}, i \in {<< >>, <<"NLP">>}, r \in {<< >>, <<"Student">>}}

\* what may precede and follow the body of a response
GenPrefixes ==
  {<< >>, <<"FENCEjson", "\n">>, <<"FENCEJSON">>, <<"FENCE", "\n">>, <<"junk", " ">>, <<" ">>}

GenSuffixes == {<< >>, <<"\n", "FENCE">>, <<" ", "junk">>, <<"\n">>}

Opt(toks) == {<< >>} \cup {<<t>> : t \in toks}

GenObjects ==
  {<<"{">> \o a \o b \o c \o <<"}">> :
     a \in Opt(SummaryFieldToks), b \in Opt(LevelFieldToks), c \in Opt(SkillsFieldToks)}

GenBodies ==
  GenObjects \cup
  {<< >>, <<"junk">>, <<"null">>, <<"7">>, <<" ", "\n">>, <<"{", "junk", "}">>,
   <<"}", "{">>, <<"{", "summary:x", "}", "junk", "}">>,
   <<"junk", "{", "summary:x", "experienceLevel:Expert", "}">>}

GenTexts == {p \o b \o q : p \in GenPrefixes, b \in GenBodies, q \in GenSuffixes}

GenOutcomes ==
  {[kind |-> "throws", text |-> << >>], [kind |-> "noresponse", text |-> << >>]}
  \cup {[kind |-> k, text |-> t] : k \in {"textfn", "candidates"}, t \in GenTexts}

GenInit ==
  /\ store = << >>
  /\ messages = << >>
  /\ nextId = 1
  /\ config = TRUE
  /\ env = TRUE
  /\ h = [s \in Slots |-> Idle]
  /\ lastDone = NoneDone
  /\ genForm \in GenForms
  /\ genAi \in BOOLEAN
  /\ genOutcome \in GenOutcomes
  /\ genResult = FailureResult(IntroDataOf(EmptyForm), "")
  /\ genTriple = NoFallback
  /\ genPc = "call"

\* part_000 27-33 and 62-75
GenCall ==
  /\ genPc = "call"
  /\ genResult' = generateIntroSummary(IntroDataOf(genForm), genAi, genOutcome)
  /\ genTriple' = TripleOf(genResult')
  /\ genPc' = "done"
  /\ UNCHANGED <<lifecycleVars, genForm, genAi, genOutcome>>

GenNext == GenCall

SpecGen == GenInit /\ [][GenNext]_vars

(***************************************************************************)
(* Properties.                                                             *)
(***************************************************************************)
Done(s) == h[s].pc = "done"

Owner(s) == h[s].actor = h[s].target

Made(hs, name, ok) == \E i \in 1..Len(hs.calls) : hs.calls[i] = Call(name, ok)

\* a call of the handler failed (the generator's fallback apart)
CallFailed(hs) ==
  \E i \in 1..Len(hs.calls) : ~hs.calls[i].ok /\ hs.calls[i].call # "generator"

\* the live messages of u are exactly the one its record names
Tidy(snap, u) ==
  LiveOf(snap.messages, u) =
    IF u \in DOMAIN snap.store THEN {snap.store[u].messageId} ELSE {}

\* if u has a record, its message is live and is u's only live message
OneLiveArtifact(u) ==
  u \in DOMAIN store =>
    /\ store[u].messageId \in DOMAIN messages
    /\ LiveOf(messages, u) = {store[u].messageId}

NonEmptyString(x) == x.t = "string" /\ x.v # << >>

NonEmptyValue(x) == x.t \in {"string", "array"} /\ x.v # << >>

\* C10 (as claimed): for every form and every generator outcome the triple the
\* handler goes on with has a non-empty summary, an experienceLevel among
\* Beginner, Builder, Pro and a non-empty skills value.
C10_TripleAlwaysUsable ==
  genPc = "done" =>
    /\ NonEmptyString(genTriple.summary)
    /\ genTriple.experienceLevel \in validLevels
    /\ NonEmptyValue(genTriple.skills)

\* the operations C1 speaks of: a create or update submission, a confirm, a cancel
LifecycleOp(s) == h[s].kind \in {"submit", "confirm", "cancel"}

CreatedOk(s) ==
  /\ Done(s) /\ h[s].kind = "submit" /\ h[s].response = RespPosted
  /\ h[s].existing = 0

\* C2 (as claimed): after a successful create the record's artifactId is the
\* id the send returned and the user has exactly one live artifact.
C2_CreateLeavesExactlyOneArtifact ==
  \A s \in Slots :
    CreatedOk(s) =>
      /\ h[s].actor \in DOMAIN store
      /\ store[h[s].actor].messageId = h[s].newId
      /\ LiveOf(messages, h[s].actor) = {h[s].newId}

\* C2 (amended): after a successful create the record's artifactId is the id
\* the send returned and that artifact is live; it is the user's only live
\* artifact when the user had none before the submission.
C2_CreateRecordsTheSentArtifact ==
  \A s \in Slots :
    CreatedOk(s) =>
      /\ h[s].actor \in DOMAIN store
      /\ store[h[s].actor].messageId = h[s].newId
      /\ h[s].newId \in LiveOf(messages, h[s].actor)
      /\ LiveOf(h[s].pre.messages, h[s].actor) = {}
           => LiveOf(messages, h[s].actor) = {h[s].newId}

C2_Witness ==
  \E s \in Slots : CreatedOk(s) /\ LiveOf(h[s].pre.messages, h[s].actor) = {}

\* the retraction of the old artifact was attempted (part_000 79-85 entered)
RetractAttempted(hs) == Made(hs, "fetchOld", TRUE) \/ Made(hs, "fetchOld", FALSE)

\* C3: after a successful update the record's artifactId is the id the new
\* send returned and the old artifact is no longer live or its retraction was
\* attempted; all through the submission the user's record names the old
\* artifact, or the new one once it is sent and the retraction attempted.
C3_UpdateReplacesArtifact ==
  \A s \in Slots :
    (h[s].kind = "submit" /\ h[s].existing # 0) =>
      /\ h[s].actor \in DOMAIN store
      /\ store[h[s].actor].messageId \in {h[s].existing, h[s].newId}
      /\ store[h[s].actor].messageId = h[s].newId
           => (Made(h[s], "send", TRUE) /\ RetractAttempted(h[s]))
      /\ (Done(s) /\ h[s].response = RespPosted) =>
           /\ store[h[s].actor].messageId = h[s].newId
           /\ h[s].existing \notin DOMAIN messages \/ RetractAttempted(h[s])

\* an update that succeeded although the old artifact could not be deleted
C3_Witness ==
  \E s \in Slots :
    /\ Done(s) /\ h[s].kind = "submit" /\ h[s].response = RespPosted
    /\ h[s].existing # 0 /\ h[s].existing \in DOMAIN messages

\* a confirm by the owner, right after the owner's delete request, of a
\* profile whose record and artifact were both there
ConfirmOfPublished(s) ==
  /\ Done(s) /\ h[s].kind = "confirm" /\ Owner(s)
  /\ lastDone.kind = "deleteBtn" /\ lastDone.actor = h[s].actor
  /\ h[s].actor \in DOMAIN h[s].pre.store
  /\ h[s].pre.store[h[s].actor].messageId \in DOMAIN h[s].pre.messages

C5_RequestAndCancelChangeNothing ==
  \A s \in Slots :
    /\ h[s].kind \in {"deleteBtn", "cancel"} =>
         (store = h[s].pre.store /\ messages = h[s].pre.messages /\ h[s].calls = << >>)
    /\ (Done(s) /\ h[s].kind = "cancel" /\ lastDone.kind = "deleteBtn"
          /\ lastDone.actor = h[s].actor) =>
         (store = lastDone.pre.store /\ messages = lastDone.pre.messages)

\* the owner of a published profile asked to delete it, then cancelled
C5_Witness ==
  \E s \in Slots :
    /\ Done(s) /\ h[s].kind = "cancel" /\ Owner(s)
    /\ lastDone.kind = "deleteBtn" /\ lastDone.actor = h[s].actor
    /\ h[s].actor \in DOMAIN store
    /\ store[h[s].actor].messageId \in DOMAIN messages

\* a confirm by the owner right after the owner's confirm that reported the
\* deletion
ReplayedConfirm(s) ==
  /\ h[s].kind = "confirm" /\ Owner(s)
  /\ lastDone.kind = "confirm" /\ lastDone.actor = h[s].actor

MutatingCalls == {"storeSave", "storeDelete", "send", "deleteOld"}

\* C6: the replayed confirm makes no store and no channel mutation, ends with
\* a reply (no error leaves the handler) and leaves the state the first
\* confirm left.
C6_SecondConfirmIsNoOp ==
  \A s \in Slots :
    ReplayedConfirm(s) =>
      /\ store = lastDone.post.store /\ messages = lastDone.post.messages
      /\ \A i \in 1..Len(h[s].calls) : h[s].calls[i].call \notin MutatingCalls
      /\ h[s].pc \in {"check", "getProfile", "done"}
      /\ Done(s) => h[s].response \in {RespNotFound, RespDeleteFailed}

C6_Witness ==
  \E s \in Slots : ReplayedConfirm(s) /\ Done(s) /\ h[s].response = RespNotFound

OwnershipReply(kind) == IF kind = "updateBtn" THEN RespOwnUpdate ELSE RespOwnDelete

\* C7: an update, delete or confirm control of user U pressed by another
\* identity is answered with the ownership message, with no store or channel
\* call made and the store and the channel unchanged.
C7_NonOwnerIsRejected ==
  \A s \in Slots :
    (h[s].kind \in {"updateBtn", "deleteBtn", "confirm"} /\ ~Owner(s)) =>
      /\ h[s].calls = << >>
      /\ store = h[s].pre.store /\ messages = h[s].pre.messages
      /\ h[s].pc \in {"check", "done"}
      /\ Done(s) => h[s].response = OwnershipReply(h[s].kind)

\* another identity confirmed the deletion of a published profile
C7_Witness ==
  \E s \in Slots :
    /\ Done(s) /\ h[s].kind = "confirm" /\ ~Owner(s)
    /\ h[s].target \in DOMAIN store
    /\ store[h[s].target].messageId \in DOMAIN messages

\* C8 (as claimed): with the channel id unset in the config and the
\* environment, a create or update submission that was deferred and a
\* confirm-delete by the owner of a record answer with the configuration
\* error and change neither the store nor the channel.
C8_UnsetChannelChangesNothing ==
  \A s \in Slots :
    (/\ Done(s) /\ ~profileChannelId
     /\ \/ h[s].kind = "submit" /\ Made(h[s], "defer", TRUE)
        \/ /\ h[s].kind = "confirm" /\ Owner(s) /\ Made(h[s], "storeGet", TRUE)
           /\ h[s].actor \in DOMAIN h[s].pre.store) =>
      /\ h[s].response = RespNotConfigured
      /\ store = h[s].pre.store /\ messages = h[s].pre.messages

\* C9: a submission whose channel resolve or send failed leaves the store as
\* it was and answers with that failure; the store is written only in a
\* submission whose send has succeeded.
C9_NoRecordWithoutPublish ==
  \A s \in Slots :
    h[s].kind = "submit" =>
      /\ store # h[s].pre.store => Made(h[s], "send", TRUE)
      /\ (Done(s) /\ Made(h[s], "resolve", FALSE)) =>
           (store = h[s].pre.store /\ h[s].response = RespChannelNotFound)
      /\ (Done(s) /\ Made(h[s], "send", FALSE)) =>
           (store = h[s].pre.store /\ h[s].response = RespPostFailed)

\* an update whose send failed after the old artifact was deleted
C9_Witness ==
  \E s \in Slots :
    /\ Done(s) /\ h[s].kind = "submit" /\ Made(h[s], "send", FALSE)
    /\ h[s].existing # 0 /\ Made(h[s], "deleteOld", TRUE)
    /\ h[s].actor \in DOMAIN store /\ store[h[s].actor].messageId = h[s].existing

(***************************************************************************)
(* The generator's result against its response (SpecGen).                  *)
(***************************************************************************)
\* the client returned a text that is not empty after trimming
GenReturnedText ==
  /\ genAi
  /\ genOutcome.kind \in {"textfn", "candidates"}
  /\ Trim(genOutcome.text) # << >>

\* what JSON.parse makes of the cleaned response
GenParsed == ParseJSON(CleanResponse(genOutcome.text))

GenFallback == createFallbackSummary(IntroDataOf(genForm))

\* C11 (as claimed): a non-empty response that is not recoverable as JSON
\* gives the full fallback: the template summary, Beginner and the fallback
\* skills.
C11_UnrecoverableGivesFullFallback ==
  (genPc = "done" /\ GenReturnedText /\ GenParsed.kind = "syntaxError") =>
    genTriple = GenFallback

\* C12 (as claimed): the fallback content for name N and interests I is the
\* summary N is interested in I and wants to learn and grow in the
\* community., the level Beginner and the skills not specified.
C12_FallbackTextExact ==
  (genPc = "done" /\ ~genResult.success) =>
    /\ genTriple.summary =
         Str(IntroDataOf(genForm).name \o <<" is interested in ">>
               \o IntroDataOf(genForm).interests
               \o <<" and wants to learn and grow in the community.">>)
    /\ genTriple.experienceLevel = Str(<<"Beginner">>)
    /\ genTriple.skills = Str(<<"not specified">>)

\* a field the response left out or left empty
EmptyField(x) == x = Undef \/ x.v = << >>

\* C13 (as claimed): when the response parses as JSON, a summary or skills
\* field that is empty or missing is replaced by the fallback's field and
\* every non-empty field the response has, a valid level too, is kept.
C13_OnlyEmptyFieldsReplaced ==
  (genPc = "done" /\ GenReturnedText /\ GenParsed.kind = "object") =>
    /\ \A k \in {"summary", "skills"} :
         genTriple[k] = IF EmptyField(GenParsed.fields[k])
                        THEN GenFallback[k]
                        ELSE GenParsed.fields[k]
    /\ GenParsed.fields.experienceLevel \in validLevels =>
         genTriple.experienceLevel = GenParsed.fields.experienceLevel

\* C14: when the response parses as JSON, a level outside Beginner, Builder,
\* Pro (a missing one too) becomes Beginner while the summary and the skills
\* the response has are kept; a level among the three is returned unchanged.
C14_InvalidLevelCoerced ==
  (genPc = "done" /\ GenReturnedText /\ GenParsed.kind = "object") =>
    /\ genTriple.experienceLevel =
         IF GenParsed.fields.experienceLevel \in validLevels
         THEN GenParsed.fields.experienceLevel
         ELSE Str(<<"Beginner">>)
    /\ \A k \in {"summary", "skills"} :
         NonEmptyString(GenParsed.fields[k]) => genTriple[k] = GenParsed.fields[k]

\* a fenced response with the level Expert, a summary and skills
C14_Witness ==
  /\ genPc = "done" /\ GenReturnedText /\ GenParsed.kind = "object"
  /\ GenParsed.fields.experienceLevel = Str(<<"Expert">>)
  /\ genTriple = [summary |-> Str(<<"x">>), experienceLevel |-> Str(<<"Beginner">>),
                  skills |-> Str(<<"Go">>)]

(***************************************************************************)
(* The submission's calls and failures (Spec).                             *)
(***************************************************************************)
CollaboratorCalls ==
  {"resolve", "storeGet", "fetchOld", "deleteOld", "send", "storeSave", "storeDelete"}

\* a call of a collaborator (store or channel) failed in the handler
CollaboratorFailed(hs) ==
  \E i \in 1..Len(hs.calls) : ~hs.calls[i].ok /\ hs.calls[i].call \in CollaboratorCalls

\* how many times the handler called name
TimesCalled(hs, name) == Cardinality({i \in 1..Len(hs.calls) : hs.calls[i].call = name})

\* C15 (as claimed): whatever the generator returned or threw, a submission
\* that was deferred with the channel configured and none of whose store and
\* channel calls failed ends having published an artifact and saved the
\* record that names it, the generator having been called at most once.
C15_GeneratorNeverBlocksCreation ==
  \A s \in Slots :
    (/\ Done(s) /\ h[s].kind = "submit"
     /\ Made(h[s], "defer", TRUE) /\ h[s].channelId
     /\ ~CollaboratorFailed(h[s])) =>
      /\ h[s].response = RespPosted
      /\ h[s].newId \in DOMAIN messages
      /\ h[s].actor \in DOMAIN store /\ store[h[s].actor].messageId = h[s].newId
      /\ TimesCalled(h[s], "generator") <= 1

\* name was called before other in the handler
CalledBefore(hs, name, other) ==
  \E i, j \in 1..Len(hs.calls) :
    i < j /\ hs.calls[i].call = name /\ hs.calls[j].call = other

\* C17 (as claimed): in an update submission the record is read from the
\* store, and the retraction attempted, before the generator is run.
C17_ReadAndRetractPrecedeGenerator ==
  \A s \in Slots :
    (/\ h[s].kind = "submit" /\ h[s].actor \in DOMAIN h[s].pre.store
     /\ TimesCalled(h[s], "generator") > 0) =>
      /\ CalledBefore(h[s], "storeGet", "generator")
      /\ RetractAttempted(h[s]) => CalledBefore(h[s], "fetchOld", "generator")

\* the submission's send succeeded and its save failed
SaveFailedAfterSend(hs) ==
  hs.kind = "submit" /\ Made(hs, "send", TRUE) /\ Made(hs, "storeSave", FALSE)

\* C19: when the artifact was published and the save then fails the handler
\* ends with the error reply, having sent once and saved once; the artifact
\* it published stays live and the store is as it was before the save.
C19_SaveFailureKeepsArtifact ==
  \A s \in Slots :
    SaveFailedAfterSend(h[s]) =>
      /\ Done(s) /\ h[s].response = RespWentWrong
      /\ TimesCalled(h[s], "send") = 1 /\ TimesCalled(h[s], "storeSave") = 1
      /\ h[s].newId \in DOMAIN messages /\ messages[h[s].newId] = h[s].actor
      /\ store = h[s].pre.store

\* an update whose save failed after the old artifact was replaced
C19_Witness ==
  \E s \in Slots :
    /\ SaveFailedAfterSend(h[s]) /\ Done(s)
    /\ h[s].existing # 0 /\ Made(h[s], "deleteOld", TRUE)

\* C20 (as claimed): the owner's update request, or confirmed delete, with
\* no record in the store is answered as not found, which is not the
\* ownership reply, and changes neither the store nor the channel.
C20_NoRecordReportedNotFound ==
  \A s \in Slots :
    (/\ Done(s) /\ Owner(s) /\ h[s].kind \in {"updateBtn", "confirm"}
     /\ Made(h[s], "storeGet", TRUE)
     /\ h[s].target \notin DOMAIN h[s].pre.store) =>
      /\ h[s].response = RespNotFound
      /\ h[s].response # OwnershipReply(h[s].kind)
      /\ store = h[s].pre.store /\ messages = h[s].pre.messages

\* the invocation was acknowledged: a submission by its deferral, a control
\* press by its handler being entered
Acknowledged(hs) == hs.kind = "submit" => Made(hs, "defer", TRUE)

\* C18: every handler invocation that is running ends, and when it was
\* acknowledged it ends with a response to the acting user, whichever of
\* its store, channel and generator calls fail.
C18_EveryHandlerAnswers ==
  /\ [](\A s \in Slots : Done(s) /\ Acknowledged(h[s]) => h[s].response # RespNone)
  /\ \A s \in Slots : (h[s].kind # "idle") ~> Done(s)

\* a confirm whose store delete failed, after the message was deleted
C18_Witness ==
  \E s \in Slots :
    /\ Done(s) /\ h[s].kind = "confirm"
    /\ Made(h[s], "deleteOld", TRUE) /\ Made(h[s], "storeDelete", FALSE)
    /\ h[s].response = RespDeleteFailed

\* two submissions of the same user that overlapped, both read the record
\* naming the same old artifact, and both ended published and saved
RacingUpdates(a, b) ==
  /\ a # b /\ Done(a) /\ Done(b)
  /\ h[a].kind = "submit" /\ h[b].kind = "submit" /\ h[a].actor = h[b].actor
  /\ h[a].existing # 0 /\ h[a].existing = h[b].existing
  /\ h[a].response = RespPosted /\ h[b].response = RespPosted

\* C16 (as claimed): after two overlapping updates of one user that read the
\* same old artifactId and both published, the user's record names one of
\* the two new artifacts and exactly one live artifact of the user, the other
\* new one, has no record naming it.
C16_ExactlyOneOrphan ==
  \A a, b \in Slots :
    RacingUpdates(a, b) =>
      /\ h[a].actor \in DOMAIN store
      /\ store[h[a].actor].messageId \in {h[a].newId, h[b].newId}
      /\ LiveOf(messages, h[a].actor) = {h[a].newId, h[b].newId}

\* C16 (amended): the user's record names the new artifact of the save that
\* landed last; the other new artifact is live and no record names it, so of
\* the two artifacts published exactly one is an orphan; the old artifact is
\* gone when one of the two retractions succeeded.
C16_LastSaveWinsOneOrphan ==
  \A a, b \in Slots :
    RacingUpdates(a, b) =>
      /\ h[a].newId # h[b].newId
      /\ {h[a].newId, h[b].newId} \subseteq LiveOf(messages, h[a].actor)
      /\ h[a].actor \in DOMAIN store
      /\ h[a].overwrote = h[b].newId \/ h[b].overwrote = h[a].newId
      /\ h[a].overwrote = h[b].newId =>
           /\ h[b].overwrote = h[b].existing
           /\ store[h[a].actor].messageId = h[a].newId
           /\ \A u \in DOMAIN store : store[u].messageId # h[b].newId
      /\ (Made(h[a], "deleteOld", TRUE) \/ Made(h[b], "deleteOld", TRUE)) =>
           h[a].existing \notin DOMAIN messages

\* both read the old id, one retracted it and the other's retraction failed
C16_Witness ==
  \E a, b \in Slots :
    /\ RacingUpdates(a, b)
    /\ Made(h[a], "deleteOld", TRUE) /\ Made(h[b], "fetchOld", FALSE)
    /\ h[a].overwrote = h[b].newId

(***************************************************************************)
(* Overlapping handlers (SpecConc).                                        *)
(***************************************************************************)
\* the record of u in a store st, or the absence of one
RecordOf(st, u) == IF u \in DOMAIN st THEN <<st[u]>> ELSE << >>

\* the user on whose event slot s takes this step
StepActor(s) == IF h'[s].kind # "idle" THEN h'[s].actor ELSE h[s].actor

\* C21: whatever the interleaving, a step of a handler invoked by user A
\* leaves the record and the live artifacts of every other user B as they
\* were, so B's record and artifacts change in B's own handlers only.
C21_OtherUsersUntouched ==
  [][\A s \in Slots :
       h'[s] # h[s] =>
         \A b \in Users \ {StepActor(s)} :
           /\ RecordOf(store', b) = RecordOf(store, b)
           /\ LiveOf(messages', b) = LiveOf(messages, b)]_vars

\* A's update and B's confirmed delete overlapped and both went through
C21_Witness ==
  \E a, b \in Slots :
    /\ h[a].actor # h[b].actor /\ Done(a) /\ Done(b)
    /\ h[a].kind = "submit" /\ h[a].response = RespPosted
    /\ Made(h[a], "deleteOld", TRUE)
    /\ h[b].kind = "confirm" /\ h[b].response = RespDeleted
    /\ Made(h[b], "deleteOld", TRUE)
    /\ h[a].pre = h[b].pre
    /\ h[b].actor \notin DOMAIN store /\ LiveOf(messages, h[b].actor) = {}
    /\ store[h[a].actor].messageId = h[a].newId
    /\ LiveOf(messages, h[a].actor) = {h[a].newId}

\* a confirm by the owner (slot c) and a submission of the same user (slot
\* u), both completed
ConfirmAndUpdate(c, u) ==
  /\ Done(c) /\ Done(u)
  /\ h[c].kind = "confirm" /\ Owner(c)
  /\ h[u].kind = "submit" /\ h[u].actor = h[c].actor

\* no store or channel call of the handler failed, the retraction of an
\* artifact apart (it fails when the other handler has retracted it)
OnlyRetractionFailed(hs) ==
  \A i \in 1..Len(hs.calls) :
    hs.calls[i].ok \/ hs.calls[i].call \in {"generator", "fetchOld", "deleteOld"}

\* C22 (as claimed): once an overlapping confirm and update of one user
\* have both completed, no call having failed but the retraction of the
\* artifact the other handler retracted, the user has no record and no live
\* artifact, or a record that names the user's only live artifact; after a
\* confirm that reported the deletion neither a record nor a live artifact
\* survives.
C22_ConsistentAfterConfirmAndUpdate ==
  \A c, u \in Slots :
    (/\ ConfirmAndUpdate(c, u)
     /\ OnlyRetractionFailed(h[c]) /\ OnlyRetractionFailed(h[u])
     /\ h[c].existing \notin DOMAIN messages) =>
      /\ Tidy(Snapshot, h[c].actor)
      /\ h[c].response = RespDeleted =>
           (h[c].actor \notin DOMAIN store /\ LiveOf(messages, h[c].actor) = {})

\* the confirm read the record of the old artifact and reported the
\* deletion, the update published and saved
OverlappedConfirmAndUpdate(c, u) ==
  /\ ConfirmAndUpdate(c, u)
  /\ h[c].response = RespDeleted /\ h[u].response = RespPosted
  /\ h[c].existing # h[u].newId

\* C22 (amended): after such a confirm and update the artifact the update
\* published is live; when the update's save found no record (the confirm's
\* delete landed first) the user's record survives and names that artifact,
\* otherwise the user has no record and the artifact is live without one;
\* the record never names the old artifact.
C22_UpdateSurvivesConfirm ==
  \A c, u \in Slots :
    OverlappedConfirmAndUpdate(c, u) =>
      /\ h[u].newId \in LiveOf(messages, h[u].actor)
      /\ h[c].existing \notin DOMAIN messages \/ ~Made(h[c], "deleteOld", TRUE)
      /\ IF h[u].overwrote = 0
         THEN /\ h[u].actor \in DOMAIN store
              /\ store[h[u].actor].messageId = h[u].newId
         ELSE h[u].actor \notin DOMAIN store

\* both read the old record; the update saved, then the confirm deleted it
C22_Witness ==
  \E c, u \in Slots :
    /\ OverlappedConfirmAndUpdate(c, u)
    /\ h[u].existing = h[c].existing /\ h[u].overwrote # 0
    /\ ~CallFailed(h[u])
    /\ h[u].actor \notin DOMAIN store
    /\ LiveOf(messages, h[u].actor) = {h[u].newId}

====
